---------------------------- MODULE Spec2Model ----------------------------
(***************************************************************************)
(* A model of galaxy.py: the training pipeline of the script's main block, *)
(* the evolution simulation with its Renderer and GIF step, the PINN       *)
(* evaluation, and the physics residual loss.                               *)
(*                                                                         *)
(* Real numbers are fixed-point integers: the integer v stands for the     *)
(* real v / Scale.  A time point is the exact rational <<num, den>>.       *)
(* Network parameters are a snapshot identifier from which the layers'     *)
(* integer weight matrices are derived; tanh is its saturating             *)
(* piecewise-linear approximation.                                         *)
(***************************************************************************)
EXTENDS Integers, Sequences, FiniteSets, TLC

VARIABLES
    pc,        \* position of the running script / driver
    dirs,      \* directories that exist
    X,         \* X_tensor: the scaled data rows (<<>> before loading)
    vaeW,      \* parameters of the GalaxyVAE instance
    pinnW,     \* parameters of the GalaxyPINN instance
    mode,      \* [vae, pinn] -> "train" | "eval"   (nn.Module.training)
    epoch,     \* loop variable of the running training loop
    saved,     \* models/*.pth : file name -> parameter snapshot
    frames,    \* results/evolution_step_*.png : name -> image
    plots,     \* the other PNG files written under results/
    gif,       \* Train_evolution.gif : sequence of images, <<>> when absent
    console,   \* the messages printed so far by create_gif
    rng,       \* state of numpy's global random generator
    sim,       \* the running simulate_evolution call: [steps, start, i, t_vals]
    handed,    \* <<step, features>> pairs handed to the Renderer by that call
    runs,      \* the completed simulate_evolution calls, oldest first
    ev,        \* evaluate_pinn: its arguments and its outcome
    ph,        \* physics_loss: its arguments and its outcome
    rd,        \* draw_spiral_galaxy_features: its arguments and what it drew
    optSteps,  \* [vae, pinn] -> optimizer steps taken (Adam's step count)
    vm         \* vae_metrics, <<>> before evaluate_vae

vars == <<pc, dirs, X, vaeW, pinnW, mode, epoch, saved, frames, plots, gif,
          console, rng, sim, handed, runs, ev, ph, rd, optSteps, vm>>

---------------------------------------------------------------------------
(* Bounds of the model *)

Scale == 10
HiddenDim == 2
NumParams == 2
RngMod == 3
MaxRuns == 2
MaxShortSteps == 2
MaxSteps == 101

(* Program constants *)

InputDim == 9
Epochs == 240
DefaultSteps == 15
DefaultEvalPoints == 10
NumStars == 1000

---------------------------------------------------------------------------
(* Arithmetic helpers *)

Min(a, b) == IF a <= b THEN a ELSE b
Max(a, b) == IF a >= b THEN a ELSE b

\* Python's int(): truncation toward zero of a / b, b > 0.
Trunc(a, b) == IF a >= 0 THEN a \div b ELSE -((-a) \div b)

RECURSIVE SumSeq(_)
SumSeq(s) == IF s = <<>> THEN 0 ELSE Head(s) + SumSeq(Tail(s))

\* torch.linspace(0, 1, n): n exact rationals <<i, n-1>>; a single point is 0.
Linspace(n) == [k \in 1..n |-> <<k - 1, Max(n - 1, 1)>>]

\* The float a time point is stored as.
ToFixed(t) == (t[1] * Scale) \div t[2]

---------------------------------------------------------------------------
(* GalaxyPINN *)

ParamIds == 0..(NumParams - 1)

\* The net's three Linear layers for the parameter snapshot w.
PinnLayers(w) ==
    [W1 |-> [j \in 1..HiddenDim |-> [i \in 1..(InputDim + 1) |-> ((w + i + 2 * j) % 3) - 1]],
     b1 |-> [j \in 1..HiddenDim |-> (((w + j) % 3) - 1) * (Scale \div 2)],
     W2 |-> [j \in 1..HiddenDim |-> [i \in 1..HiddenDim |-> ((2 * w + i + j) % 3) - 1]],
     b2 |-> [j \in 1..HiddenDim |-> ((w + j) % 2) * (Scale \div 2)],
     W3 |-> [o \in 1..InputDim |-> [j \in 1..HiddenDim |-> ((w + o + j) % 3) - 1]],
     b3 |-> [o \in 1..InputDim |-> ((w + o) % 4) * (Scale \div 4)]]

\* nn.Linear with integer weights and fixed-point biases: b + W v.
Linear(W, b, v) ==
    [j \in 1..Len(W) |-> b[j] + SumSeq([i \in 1..Len(v) |-> W[j][i] * v[i]])]

\* nn.Tanh, elementwise: odd, monotone, saturating at +-1.
Tanh(v) == [j \in 1..Len(v) |-> Max(-Scale, Min(Scale, v[j]))]

\* GalaxyPINN.forward for one row x and its time t (a fixed-point scalar).
PinnForward(w, x, t) ==
    LET p   == PinnLayers(w)
        x_t == x \o <<t>>
        h1  == Tanh(Linear(p.W1, p.b1, x_t))
        h2  == Tanh(Linear(p.W2, p.b2, h1))
    IN  Linear(p.W3, p.b3, h2)

---------------------------------------------------------------------------
(* Data *)

\* Rows of the scaled feature table; every entry lies in 0..Scale.
\* P_EL, P_CW, P_ACW, P_EDGE, P_DK, P_MG, P_CS, P_EL_DEBIASED, P_CS_DEBIASED
RowElliptical == <<Scale - 1, 0, 0, 0, 0, 1, Scale - 2, Scale - 1, Scale - 2>>
RowSpiral     == <<1, Scale - 3, Scale - 4, 1, 0, 0, 2, 1, 2>>
RowZero       == [i \in 1..InputDim |-> 0]

RowEdgeOn     == <<2, 1, 1, Scale, 0, 1, Scale \div 2, 2, Scale \div 2>>

\* rand_idx is drawn from these row numbers; the model keeps X_tensor's rows at
\* these numbers only, X[k] being row RandIdx[k] of the table.
RandIdx == <<0, 10, 100, 200, 500, 800>>

DataSets == { <<RowElliptical, RowSpiral, RowZero, RowEdgeOn, RowSpiral, RowElliptical>>,
              <<RowSpiral, RowEdgeOn, RowElliptical, RowZero, RowZero, RowSpiral>> }
Starts == { RowElliptical, RowSpiral }


---------------------------------------------------------------------------
(* Renderer: draw_spiral_galaxy_features *)

RECURSIVE Digits(_)
\* The decimal digits of n >= 0, most significant first.
Digits(n) == IF n < 10 THEN <<n>> ELSE Append(Digits(n \div 10), n % 10)

\* A formatting without the zero padding, as {step:d} would give.
FmtUnpadded(n) == Digits(n)

\* Python's format spec 02d: the digits, zero-padded on the left to width 2.
Fmt02d(n) == LET d == Digits(n) IN IF Len(d) < 2 THEN <<0>> \o d ELSE d

\* The part of "results/evolution_step_<02d>.png" that differs between frames,
\* as character codes: the digits ('0' is 48) and the '.' (46) that follows.
FrameName(step) == [k \in 1..Len(Fmt02d(step)) |-> 48 + Fmt02d(step)[k]] \o <<46>>

\* num_arms = int(2 + 4 * (P_CW + P_ACW))
NumArms(features) == Trunc(2 * Scale + 4 * (features[2] + features[3]), Scale)

\* The iterations of "for arm in range(num_arms)".
ArmsDrawn(features) == Max(NumArms(features), 0)

\* Each arm draws from np.random.normal twice.
RngAfter(r, draws) == (r + draws) % RngMod

\* The image the Renderer saves for (step, features) with generator state r.
Draw(step, features, r) ==
    [step   |-> step,
     arms   |-> ArmsDrawn(features),
     stars  |-> ArmsDrawn(features) * NumStars,
     tight  |-> Scale \div 2 + 3 * (Scale - features[1]),
     colour |-> Min(Scale, Scale \div 2 + features[7]),
     jitter |-> r]

\* plt.savefig: the file is created or overwritten.
WriteFile(fs, name, content) ==
    [n \in DOMAIN fs \cup {name} |-> IF n = name THEN content ELSE fs[n]]

---------------------------------------------------------------------------
(* simulate_evolution *)

\* evald: the time points the PINN was evaluated at, in call order;
\* rng0: the generator state the call started with.
NoSim == [steps |-> 0, start |-> <<>>, i |-> 0, t_vals |-> <<>>, evald |-> <<>>, rng0 |-> 0]

\* Entry: t_vals = linspace(0, 1, steps); pinn.eval(); vae.eval().
SimEnter(steps, start) ==
    /\ sim' = [steps |-> steps, start |-> start, i |-> 0, t_vals |-> Linspace(steps),
               evald |-> <<>>, rng0 |-> rng]
    /\ handed' = <<>>
    /\ mode' = [vae |-> "eval", pinn |-> "eval"]

\* A simulation step that samples like GalaxyVAE.reparameterize does.
EvolvedSampled(w, start, t, r) ==
    [k \in 1..InputDim |-> PinnForward(w, start, ToFixed(t))[k] + r]

\* The feature vector of one loop iteration: pinn(start_state, t_input)[0].
Evolved(w, start, t, r) == PinnForward(w, start, ToFixed(t))

\* One iteration of "for i, t in enumerate(t_vals)", ending at `after`
\* when it was the last one.
SimIterate(after) ==
    LET i    == sim.i
        t    == sim.t_vals[i + 1]
        feat == Evolved(pinnW, sim.start, t, rng)
        img  == Draw(i, feat, rng)
    IN  /\ sim.i < sim.steps
        /\ IF "results" \in dirs
           THEN /\ frames' = WriteFile(frames, FrameName(i),
                                       [img |-> img, call |-> Len(runs) + 1])
                /\ handed' = Append(handed, <<i, feat>>)
                /\ rng' = RngAfter(rng, 2 * img.arms)
                /\ sim' = [sim EXCEPT !.i = i + 1, !.evald = Append(@, t)]
                /\ IF i + 1 = sim.steps
                   THEN /\ runs' = Append(runs, [w |-> pinnW, start |-> sim.start,
                                                 steps |-> sim.steps,
                                                 evald |-> sim'.evald,
                                                 rng0 |-> sim.rng0,
                                                 handed |-> handed'])
                        /\ pc' = after
                   ELSE UNCHANGED <<runs, pc>>
           ELSE /\ pc' = "crashed"
                /\ UNCHANGED <<frames, handed, rng, sim, runs>>

---------------------------------------------------------------------------
(* create_gif *)

RECURSIVE LexLess(_, _)
\* String order on character-code sequences.
LexLess(a, b) ==
    IF b = <<>> THEN FALSE
    ELSE IF a = <<>> THEN TRUE
    ELSE IF Head(a) # Head(b) THEN Head(a) < Head(b)
    ELSE LexLess(Tail(a), Tail(b))

\* x put at its place in the sorted sequence s.
InsertSorted(x, s) ==
    LET k == Cardinality({j \in 1..Len(s) : LexLess(s[j], x)})
    IN  SubSeq(s, 1, k) \o <<x>> \o SubSeq(s, k + 1, Len(s))

RECURSIVE SortedNames(_)
\* sorted(...) of a set of names.
SortedNames(S) ==
    IF S = {} THEN <<>>
    ELSE LET x == CHOOSE y \in S : TRUE
         IN  InsertSorted(x, SortedNames(S \ {x}))

\* glob.glob(f"{folder}/evolution_step_*.png")
Glob == DOMAIN frames

\* create_gif without its "if images" guard: images[0] of an empty list raises.
CreateGifUnguarded(after) ==
    LET image_files == SortedNames(Glob)
        images      == [k \in 1..Len(image_files) |-> frames[image_files[k]]]
    IN  IF images # <<>>
        THEN /\ gif' = images
             /\ console' = Append(console, "GIF saved")
             /\ pc' = after
        ELSE /\ gif' = gif
             /\ console' = console
             /\ pc' = "crashed"

\* create_gif(), returning to `after`.
CreateGif(after) ==
    LET image_files == SortedNames(Glob)
        images      == [k \in 1..Len(image_files) |-> frames[image_files[k]]]
    IN  IF images # <<>>
        THEN /\ gif' = images
             /\ console' = Append(console, "GIF saved")
             /\ pc' = after
        ELSE /\ gif' = gif
             /\ console' = Append(console, "No evolution images found")
             /\ pc' = after

---------------------------------------------------------------------------
(* Repeated simulate_evolution / create_gif calls on one results directory *)

InitSim ==
    /\ pc = "idle"
    /\ dirs = {"models", "results"}
    /\ X = CHOOSE d \in DataSets : d[1] = RowElliptical
    /\ vaeW = 0
    /\ pinnW \in ParamIds
    /\ mode = [vae |-> "train", pinn |-> "train"]
    /\ epoch = Epochs
    /\ saved = [n \in {"vae_galaxy.pth", "pinn_galaxy.pth"} |->
                   IF n = "vae_galaxy.pth" THEN vaeW ELSE pinnW]
    /\ frames = <<>>
    /\ plots = {}
    /\ gif = <<>>
    /\ console = <<>>
    /\ rng \in 0..(RngMod - 1)
    /\ sim = NoSim
    /\ handed = <<>>
    /\ runs = <<>>
    /\ ev = <<>>
    /\ ph = <<>>
    /\ rd = <<>>
    /\ optSteps = [vae |-> Epochs, pinn |-> Epochs]
    /\ vm = <<>>

\* A caller's simulate_evolution(pinn, vae, start, steps) on the shared directory.
CallSimulate ==
    /\ pc = "idle"
    /\ Len(runs) < MaxRuns
    /\ \E steps \in 1..MaxShortSteps, start \in Starts : SimEnter(steps, start)
    /\ pc' = "sim"
    /\ UNCHANGED <<dirs, X, vaeW, pinnW, epoch, saved, frames, plots, gif, console,
                   rng, runs, ev, ph, rd, optSteps, vm>>

SimLoop ==
    /\ pc = "sim"
    /\ SimIterate("idle")
    /\ UNCHANGED <<dirs, X, vaeW, pinnW, mode, epoch, saved, plots, gif, console,
                   ev, ph, rd, optSteps, vm>>

\* A caller's create_gif(): once on the directory as found, and once after
\* each simulation.
CallCreateGif ==
    /\ pc = "idle"
    /\ Len(console) <= Len(runs)
    /\ CreateGif("idle")
    /\ UNCHANGED <<dirs, X, vaeW, pinnW, mode, epoch, saved, frames, plots,
                   rng, sim, handed, runs, ev, ph, rd, optSteps, vm>>

\* Another training run replaces the PINN's parameters between two calls.
Retrain ==
    /\ pc = "idle"
    /\ runs # <<>>
    /\ Len(runs) < MaxRuns
    /\ \E w \in ParamIds \ {pinnW} : pinnW' = w
    /\ saved' = [saved EXCEPT !["pinn_galaxy.pth"] = pinnW']
    /\ mode' = [mode EXCEPT !.pinn = "train"]
    /\ UNCHANGED <<pc, dirs, X, vaeW, epoch, frames, plots, gif, console,
                   rng, sim, handed, runs, ev, ph, rd, optSteps, vm>>

NextSim == CallSimulate \/ SimLoop \/ CallCreateGif \/ Retrain

SpecSim == InitSim /\ [][NextSim]_vars

---------------------------------------------------------------------------
(* One simulate_evolution(steps = N) call into an empty results directory *)

InitOne ==
    /\ InitSim
    /\ pinnW = 0
    /\ rng = 0

CallSimulateOnce ==
    /\ pc = "idle"
    /\ runs = <<>>
    /\ \E steps \in 1..MaxSteps, start \in Starts : SimEnter(steps, start)
    /\ pc' = "sim"
    /\ UNCHANGED <<dirs, X, vaeW, pinnW, epoch, saved, frames, plots, gif, console,
                   rng, runs, ev, ph, rd, optSteps, vm>>

NextOne == CallSimulateOnce \/ SimLoop

SpecOne == InitOne /\ [][NextOne]_vars

---------------------------------------------------------------------------
(* evaluate_pinn *)

\* np.sqrt on a fixed-point value v / Scale^2: the root, in units of 1 / Scale.
RECURSIVE SqrtFrom(_, _)
SqrtFrom(v, r) == IF (r + 1) * (r + 1) > v THEN r ELSE SqrtFrom(v, r + 1)
Sqrt(v) == SqrtFrom(v, 0)

\* (values > threshold).astype(int), threshold = 0.5, on a fixed-point value.
Binarize(v) == IF 2 * v > Scale THEN 1 ELSE 0

\* The flattened (row, column) positions of a batch.
Cells(data) == (1..Len(data)) \X (1..InputDim)

RECURSIVE SumOver(_, _)
\* The sum of f[c] over the cells c of S.
SumOver(S, f) == IF S = {} THEN 0
                 ELSE LET c == CHOOSE x \in S : TRUE IN f[c] + SumOver(S \ {c}, f)

\* pinn(data, t_tensor): one prediction row per data row.
Predict(w, data, t) == [r \in 1..Len(data) |-> PinnForward(w, data[r], ToFixed(t))]

\* The metrics of one time point (the body of "for t in t_values").
PointMetrics(w, data, t) ==
    LET predictions == Predict(w, data, t)
        cells       == Cells(data)
        sqerr       == [c \in cells |-> (predictions[c[1]][c[2]] - data[c[1]][c[2]])
                                        * (predictions[c[1]][c[2]] - data[c[1]][c[2]])]
        mse         == SumOver(cells, sqerr) \div Cardinality(cells)
        hits        == Cardinality({c \in cells : Binarize(predictions[c[1]][c[2]])
                                                  = Binarize(data[c[1]][c[2]])})
        misses      == Cardinality(cells) - hits
    IN  [t        |-> t,
         MSE      |-> mse,
         RMSE     |-> Sqrt(mse),
         Accuracy |-> (hits * Scale) \div Cardinality(cells),
         F1       |-> (2 * hits * Scale) \div (2 * hits + misses + misses)]

\* np.mean of a non-empty list, as the exact rational <<sum, count>>.
Mean(values) == <<SumSeq(values), Len(values)>>

\* An average taken over the wrong column.
AvgRmseFromMse(results) == Mean([k \in 1..Len(results) |-> results[k].MSE])

\* avg_rmse = np.mean([r['RMSE'] for r in results])
AvgRmse(results) == Mean([k \in 1..Len(results) |-> results[k].RMSE])

\* A lower-middle index, (n - 1) // 2.
LowerMidIndex(n) == (n - 1) \div 2

\* len(t_values) // 2, the 0-based index of mid_t.
MidIndex(n) == n \div 2

\* confusion_matrix of the flattened binarized data and predictions.
ConfusionMatrix(data, predictions) ==
    [a \in {0, 1} |-> [p \in {0, 1} |->
        Cardinality({c \in Cells(data) : /\ Binarize(data[c[1]][c[2]]) = a
                                         /\ Binarize(predictions[c[1]][c[2]]) = p})]]

\* evaluate_pinn(pinn, data, t_values); is_none tells that t_values is None.
\* With no time point, t_values[0] raises IndexError before anything is returned.
EvaluatePinnResult(w, data, is_none, t_arg) ==
    LET t_values == IF is_none THEN Linspace(DefaultEvalPoints) ELSE t_arg
        n        == Len(t_values)
        results  == [k \in 1..n |-> PointMetrics(w, data, t_values[k])]
    IN  IF n = 0
        THEN [raised |-> "IndexError", is_none |-> is_none, t_values |-> t_values]
        ELSE LET mid_t == t_values[MidIndex(n) + 1]
             IN  [raised   |-> "",
                  is_none  |-> is_none,
                  t_values |-> t_values,
                  Detail   |-> results,
                  AvgMSE   |-> Mean([k \in 1..n |-> results[k].MSE]),
                  AvgRMSE  |-> AvgRmse(results),
                  AvgAcc   |-> Mean([k \in 1..n |-> results[k].Accuracy]),
                  AvgF1    |-> Mean([k \in 1..n |-> results[k].F1]),
                  mid_pos  |-> MidIndex(n) + 1,
                  mid_t    |-> mid_t,
                  cm       |-> ConfusionMatrix(data, Predict(w, data, mid_t))]

\* The effects of an evaluate_pinn call, returning to `after`.
EvaluatePinnCall(is_none, t_arg, after) ==
    LET res == EvaluatePinnResult(pinnW, X, is_none, t_arg)
    IN  /\ mode' = [mode EXCEPT !.pinn = "eval"]
        /\ ev' = res
        /\ IF res.raised # ""
           THEN /\ pc' = "crashed"
                /\ plots' = plots
           ELSE IF "results" \in dirs
           THEN /\ plots' = plots \cup {"pinn_confusion_matrix.png"}
                /\ pc' = after
           ELSE /\ pc' = "crashed"
                /\ plots' = plots

---------------------------------------------------------------------------
(* evaluate_pinn called on arbitrary time points *)

MaxPoints == 3

TGrid == { <<0, 1>>, <<1, 2>>, <<1, 1>> }

RECURSIVE SeqsUpTo(_, _)
\* The sequences over S of length at most n.
SeqsUpTo(S, n) == IF n = 0 THEN {<<>>}
                  ELSE LET shorter == SeqsUpTo(S, n - 1)
                       IN  shorter \cup {Append(q, x) : q \in shorter, x \in S}

TimeArgs == SeqsUpTo(TGrid, MaxPoints) \cup {Linspace(DefaultEvalPoints)}

InitEval ==
    /\ pc = "call"
    /\ dirs = {"models", "results"}
    /\ X \in DataSets
    /\ vaeW = 0
    /\ pinnW \in ParamIds
    /\ mode = [vae |-> "train", pinn |-> "train"]
    /\ epoch = Epochs
    /\ saved = [n \in {"vae_galaxy.pth", "pinn_galaxy.pth"} |->
                   IF n = "vae_galaxy.pth" THEN vaeW ELSE pinnW]
    /\ frames = <<>>
    /\ plots = {}
    /\ gif = <<>>
    /\ console = <<>>
    /\ rng = 0
    /\ sim = NoSim
    /\ handed = <<>>
    /\ runs = <<>>
    /\ ev = <<>>
    /\ ph = <<>>
    /\ rd = <<>>
    /\ optSteps = [vae |-> Epochs, pinn |-> Epochs]
    /\ vm = <<>>

\* evaluate_pinn(pinn, X_tensor, t_values) with explicit time points.
CallEvaluatePinn ==
    /\ pc = "call"
    /\ \E t_arg \in TimeArgs : EvaluatePinnCall(FALSE, t_arg, "returned")
    /\ UNCHANGED <<dirs, X, vaeW, pinnW, epoch, saved, frames, gif, console, rng,
                   sim, handed, runs, ph, rd, optSteps, vm>>

\* evaluate_pinn(pinn, X_tensor): t_values left to its default.
CallEvaluatePinnDefault ==
    /\ pc = "call"
    /\ EvaluatePinnCall(TRUE, <<>>, "returned")
    /\ UNCHANGED <<dirs, X, vaeW, pinnW, epoch, saved, frames, gif, console, rng,
                   sim, handed, runs, ph, rd, optSteps, vm>>

NextEval == CallEvaluatePinn \/ CallEvaluatePinnDefault

SpecEval == InitEval /\ [][NextEval]_vars

---------------------------------------------------------------------------
(* GalaxyVAE and evaluate_vae *)

LatentDim == 3

\* nn.Sigmoid on a fixed-point value: monotone, bounded to [0, 1].
Sigmoid(v) == Max(0, Min(Scale, Scale \div 2 + v \div 4))

\* GalaxyVAE.forward for one row: encode to mu, sample z = mu + std * eps with
\* the drawn noise eps, decode through the final Sigmoid.
VaeForward(w, x, eps) ==
    LET mu == [j \in 1..LatentDim |->
                 SumSeq([i \in 1..InputDim |-> (((w + i + j) % 3) - 1) * x[i]]) \div InputDim]
        z  == [j \in 1..LatentDim |-> mu[j] + eps]
    IN  [k \in 1..InputDim |->
            Sigmoid(SumSeq([j \in 1..LatentDim |-> (((w + k + 2 * j) % 3) - 1) * z[j]]))]

Noise == {0, 1}

\* The metrics evaluate_vae returns for the noise drawn by reparameterize.
VaeMetrics(w, data, eps) ==
    LET reconstructed == [r \in 1..Len(data) |-> VaeForward(w, data[r], eps)]
        cells         == Cells(data)
        sqerr         == [c \in cells |-> (reconstructed[c[1]][c[2]] - data[c[1]][c[2]])
                                          * (reconstructed[c[1]][c[2]] - data[c[1]][c[2]])]
        mse           == SumOver(cells, sqerr) \div Cardinality(cells)
        hits          == Cardinality({c \in cells : Binarize(reconstructed[c[1]][c[2]])
                                                    = Binarize(data[c[1]][c[2]])})
        misses        == Cardinality(cells) - hits
    IN  [MSE      |-> mse,
         RMSE     |-> Sqrt(mse),
         Accuracy |-> (hits * Scale) \div Cardinality(cells),
         F1       |-> (2 * hits * Scale) \div (2 * hits + misses + misses),
         cm       |-> ConfusionMatrix(data, reconstructed)]

---------------------------------------------------------------------------
(* The script: module setup and the main block *)

Init ==
    /\ pc = "start"
    /\ dirs = {}
    /\ X = <<>>
    /\ vaeW = 0
    /\ pinnW = 0
    /\ mode = [vae |-> "none", pinn |-> "none"]
    /\ epoch = 0
    /\ saved = <<>>
    /\ frames = <<>>
    /\ plots = {}
    /\ gif = <<>>
    /\ console = <<>>
    /\ rng \in 0..(RngMod - 1)
    /\ sim = NoSim
    /\ handed = <<>>
    /\ runs = <<>>
    /\ ev = <<>>
    /\ ph = <<>>
    /\ rd = <<>>
    /\ optSteps = [vae |-> 0, pinn |-> 0]
    /\ vm = <<>>

\* A setup that forgets the results directory.
MakeDirsModelsOnly ==
    /\ pc = "start"
    /\ dirs' = dirs \cup {"models"}
    /\ pc' = "load"
    /\ UNCHANGED <<X, vaeW, pinnW, mode, epoch, saved, frames, plots, gif, console,
                   rng, sim, handed, runs, ev, ph, rd, optSteps, vm>>

\* os.makedirs("models", exist_ok=True); os.makedirs("results", exist_ok=True)
MakeDirs ==
    /\ pc = "start"
    /\ dirs' = dirs \cup {"models", "results"}
    /\ pc' = "load"
    /\ UNCHANGED <<X, vaeW, pinnW, mode, epoch, saved, frames, plots, gif, console,
                   rng, sim, handed, runs, ev, ph, rd, optSteps, vm>>

\* read_csv, dropna, MinMaxScaler.fit_transform, torch.tensor
LoadData ==
    /\ pc = "load"
    /\ X' \in DataSets
    /\ pc' = "vae_init"
    /\ UNCHANGED <<dirs, vaeW, pinnW, mode, epoch, saved, frames, plots, gif, console,
                   rng, sim, handed, runs, ev, ph, rd, optSteps, vm>>

\* vae = GalaxyVAE(); vae_optim = Adam(...); vae.train()
VaeInit ==
    /\ pc = "vae_init"
    /\ vaeW' \in ParamIds
    /\ mode' = [mode EXCEPT !.vae = "train"]
    /\ epoch' = 0
    /\ pc' = "vae_train"
    /\ UNCHANGED <<dirs, X, pinnW, saved, frames, plots, gif, console,
                   rng, sim, handed, runs, ev, ph, rd, optSteps, vm>>

\* One full-batch epoch of "for epoch in range(240)": zero_grad, forward, loss,
\* backward, step.  The update moves the parameters to some snapshot.
VaeEpoch ==
    /\ pc = "vae_train"
    /\ epoch < Epochs
    /\ vaeW' \in ParamIds
    /\ optSteps' = [optSteps EXCEPT !.vae = @ + 1]
    /\ epoch' = epoch + 1
    /\ UNCHANGED <<pc, dirs, X, pinnW, mode, saved, frames, plots, gif, console,
                   rng, sim, handed, runs, ev, ph, rd, vm>>

\* torch.save(state_dict, "models/<name>") of the snapshot w, then on to `after`.
SaveModel(name, w, after) ==
    IF "models" \in dirs
    THEN /\ saved' = WriteFile(saved, name, w)
         /\ pc' = after
    ELSE /\ saved' = saved
         /\ pc' = "crashed"

\* The VAE loop is exhausted: torch.save(vae.state_dict(), "models/vae_galaxy.pth")
SaveVae ==
    /\ pc = "vae_train"
    /\ epoch = Epochs
    /\ SaveModel("vae_galaxy.pth", vaeW, "pinn_init")
    /\ UNCHANGED <<dirs, X, vaeW, pinnW, mode, epoch, frames, plots, gif, console,
                   rng, sim, handed, runs, ev, ph, rd, optSteps, vm>>

\* pinn = GalaxyPINN(); pinn_optim = Adam(...); timesteps = linspace(...)
PinnInit ==
    /\ pc = "pinn_init"
    /\ pinnW' \in ParamIds
    /\ mode' = [mode EXCEPT !.pinn = "train"]
    /\ epoch' = 0
    /\ pc' = "pinn_train"
    /\ UNCHANGED <<dirs, X, vaeW, saved, frames, plots, gif, console,
                   rng, sim, handed, runs, ev, ph, rd, optSteps, vm>>

\* One full-batch epoch of the PINN loop: MSE + physics_loss, backward, step.
PinnEpoch ==
    /\ pc = "pinn_train"
    /\ epoch < Epochs
    /\ pinnW' \in ParamIds
    /\ optSteps' = [optSteps EXCEPT !.pinn = @ + 1]
    /\ epoch' = epoch + 1
    /\ UNCHANGED <<pc, dirs, X, vaeW, mode, saved, frames, plots, gif, console,
                   rng, sim, handed, runs, ev, ph, rd, vm>>

\* The PINN loop is exhausted: torch.save(pinn.state_dict(), "models/pinn_galaxy.pth")
SavePinn ==
    /\ pc = "pinn_train"
    /\ epoch = Epochs
    /\ SaveModel("pinn_galaxy.pth", pinnW, "eval_vae")
    /\ UNCHANGED <<dirs, X, vaeW, pinnW, mode, epoch, frames, plots, gif, console,
                   rng, sim, handed, runs, ev, ph, rd, optSteps, vm>>

\* vae_metrics = evaluate_vae(vae, X_tensor)
EvaluateVae ==
    /\ pc = "eval_vae"
    /\ mode' = [mode EXCEPT !.vae = "eval"]
    /\ \E eps \in Noise : vm' = VaeMetrics(vaeW, X, eps)
    /\ IF "results" \in dirs
       THEN /\ plots' = plots \cup {"vae_confusion_matrix.png"}
            /\ pc' = "eval_pinn"
       ELSE /\ plots' = plots
            /\ pc' = "crashed"
    /\ UNCHANGED <<dirs, X, vaeW, pinnW, epoch, saved, frames, gif, console,
                   rng, sim, handed, runs, ev, ph, rd, optSteps>>

\* An evaluation that goes on training: an optimizer step on the evaluated model.
EvaluatePinnStepping ==
    /\ pc = "eval_pinn"
    /\ EvaluatePinnCall(FALSE, Linspace(DefaultEvalPoints), "plot")
    /\ pinnW' = (pinnW + 1) % NumParams
    /\ UNCHANGED <<dirs, X, vaeW, epoch, saved, frames, gif, console,
                   rng, sim, handed, runs, ph, rd, optSteps, vm>>

\* test_times = linspace(0, 1, 10); pinn_metrics = evaluate_pinn(pinn, X_tensor, test_times)
EvaluatePinn ==
    /\ pc = "eval_pinn"
    /\ EvaluatePinnCall(FALSE, Linspace(DefaultEvalPoints), "plot")
    /\ UNCHANGED <<dirs, X, vaeW, pinnW, epoch, saved, frames, gif, console,
                   rng, sim, handed, runs, ph, rd, optSteps, vm>>

\* plot_metrics_over_time(pinn_metrics)
PlotMetrics ==
    /\ pc = "plot"
    /\ IF "results" \in dirs
       THEN /\ plots' = plots \cup {"pinn_metrics_over_time.png"}
            /\ pc' = "select"
       ELSE /\ plots' = plots
            /\ pc' = "crashed"
    /\ UNCHANGED <<dirs, X, vaeW, pinnW, mode, epoch, saved, frames, gif, console,
                   rng, sim, handed, runs, ev, ph, rd, optSteps, vm>>

\* rand_idx = random.choice([...]); sample = X_tensor[rand_idx].unsqueeze(0);
\* simulate_evolution(pinn, vae, sample) is entered with the default step count.
SelectAndSimulate ==
    /\ pc = "select"
    /\ \E k \in 1..Len(RandIdx) : SimEnter(DefaultSteps, X[k])
    /\ pc' = "sim"
    /\ UNCHANGED <<dirs, X, vaeW, pinnW, epoch, saved, frames, plots, gif, console,
                   rng, runs, ev, ph, rd, optSteps, vm>>

\* One iteration of simulate_evolution's loop; create_gif follows the last.
MainSimLoop ==
    /\ pc = "sim"
    /\ SimIterate("gif")
    /\ UNCHANGED <<dirs, X, vaeW, pinnW, mode, epoch, saved, plots, gif, console,
                   ev, ph, rd, optSteps, vm>>

\* create_gif()
MainCreateGif ==
    /\ pc = "gif"
    /\ CreateGif("done")
    /\ UNCHANGED <<dirs, X, vaeW, pinnW, mode, epoch, saved, frames, plots,
                   rng, sim, handed, runs, ev, ph, rd, optSteps, vm>>

Next ==
    \/ MakeDirs \/ LoadData
    \/ VaeInit \/ VaeEpoch \/ SaveVae
    \/ PinnInit \/ PinnEpoch \/ SavePinn
    \/ EvaluateVae \/ EvaluatePinn \/ PlotMetrics
    \/ SelectAndSimulate \/ MainSimLoop \/ MainCreateGif

Spec == Init /\ [][Next]_vars

---------------------------------------------------------------------------
(* draw_spiral_galaxy_features called on probability vectors *)

\* The entries the Renderer reads (P_EL, P_CW, P_ACW, P_CS) range over [0, 1];
\* the others are those of one table row.
FeatureVectors ==
    { [k \in 1..InputDim |-> IF k = 1 THEN el ELSE IF k = 2 THEN cw
                             ELSE IF k = 3 THEN acw ELSE IF k = 7 THEN cs
                             ELSE RowEdgeOn[k]] :
      el \in {0, Scale}, cw \in 0..Scale, acw \in 0..Scale, cs \in {0, Scale} }

InitRender ==
    /\ pc = "call"
    /\ dirs = {"models", "results"}
    /\ X = <<>>
    /\ vaeW = 0
    /\ pinnW = 0
    /\ mode = [vae |-> "eval", pinn |-> "eval"]
    /\ epoch = Epochs
    /\ saved = <<>>
    /\ frames = <<>>
    /\ plots = {}
    /\ gif = <<>>
    /\ console = <<>>
    /\ rng = 0
    /\ sim = NoSim
    /\ handed = <<>>
    /\ runs = <<>>
    /\ ev = <<>>
    /\ ph = <<>>
    /\ rd \in [step : {0, 1}, features : FeatureVectors]
    /\ optSteps = [vae |-> Epochs, pinn |-> Epochs]
    /\ vm = <<>>

\* draw_spiral_galaxy_features(step, features)
CallDraw ==
    /\ pc = "call"
    /\ rd' = [step |-> rd.step, features |-> rd.features,
              num_arms |-> NumArms(rd.features),
              img |-> Draw(rd.step, rd.features, rng)]
    /\ frames' = WriteFile(frames, FrameName(rd.step), [img |-> rd'.img, call |-> 1])
    /\ rng' = RngAfter(rng, 2 * rd'.img.arms)
    /\ pc' = "returned"
    /\ UNCHANGED <<dirs, X, vaeW, pinnW, mode, epoch, saved, plots, gif, console,
                   sim, handed, runs, ev, ph, optSteps, vm>>

NextRender == CallDraw

SpecRender == InitRender /\ [][NextRender]_vars

---------------------------------------------------------------------------
(* physics_loss *)

MaxBatch == 2

\* weight = 0.1
Weight == <<1, 10>>

\* preds is an affine function of t per entry: slopes[j][k] is the derivative of
\* preds[j, k] with respect to t[j].  connected tells that t is part of the
\* autograd graph preds was computed in.
SlopeRows ==
    { [k \in 1..InputDim |-> IF k = 1 THEN a ELSE IF k = 2 THEN b ELSE c] :
      a \in -1..1, b \in -1..1, c \in -1..1 }

ZeroSlopes(B) == [j \in 1..B |-> [k \in 1..InputDim |-> 0]]

\* A residual that forgets the square.
PhysicsLossUnsquared(slopes, connected, weight) ==
    IF ~connected
    THEN [raised |-> "RuntimeError"]
    ELSE LET d_preds_dt == [j \in 1..Len(slopes) |-> SumSeq(slopes[j])]
         IN  [raised |-> "",
              loss   |-> <<weight[1] * SumSeq(d_preds_dt), weight[2] * Len(slopes)>>]

\* physics_loss(preds, t, weight).  autograd.grad with grad_outputs = ones gives,
\* per row, the sum over the outputs of d preds / d t; it raises when t was not
\* used to compute preds (allow_unused is left False).
PhysicsLoss(slopes, connected, weight) ==
    IF ~connected
    THEN [raised |-> "RuntimeError"]
    ELSE LET d_preds_dt == [j \in 1..Len(slopes) |-> SumSeq(slopes[j])]
         IN  [raised |-> "",
              loss   |-> <<weight[1] * SumSeq([j \in 1..Len(slopes) |->
                                                  d_preds_dt[j] * d_preds_dt[j]]),
                           weight[2] * Len(slopes)>>]

InitPhys ==
    /\ pc = "call"
    /\ dirs = {"models", "results"}
    /\ X = <<>>
    /\ vaeW = 0
    /\ pinnW = 0
    /\ mode = [vae |-> "eval", pinn |-> "train"]
    /\ epoch = 0
    /\ saved = <<>>
    /\ frames = <<>>
    /\ plots = {}
    /\ gif = <<>>
    /\ console = <<>>
    /\ rng = 0
    /\ sim = NoSim
    /\ handed = <<>>
    /\ runs = <<>>
    /\ ev = <<>>
    /\ \E B \in 1..MaxBatch :
          \/ ph \in [slopes : [1..B -> SlopeRows], connected : {TRUE}]
          \/ ph = [slopes |-> ZeroSlopes(B), connected |-> FALSE]
    /\ rd = <<>>
    /\ optSteps = [vae |-> Epochs, pinn |-> 0]
    /\ vm = <<>>

\* physics_loss(preds, t) with the default weight.
CallPhysicsLoss ==
    /\ pc = "call"
    /\ ph' = [slopes |-> ph.slopes, connected |-> ph.connected,
              out |-> PhysicsLoss(ph.slopes, ph.connected, Weight)]
    /\ pc' = IF ph'.out.raised = "" THEN "returned" ELSE "crashed"
    /\ UNCHANGED <<dirs, X, vaeW, pinnW, mode, epoch, saved, frames, plots, gif,
                   console, rng, sim, handed, runs, ev, rd, optSteps, vm>>

NextPhys == CallPhysicsLoss

SpecPhys == InitPhys /\ [][NextPhys]_vars

---------------------------------------------------------------------------
(* Properties of simulate_evolution and create_gif *)

RatEq(a, b)   == a[1] * b[2] = b[1] * a[2]
RatLess(a, b) == a[1] * b[2] < b[1] * a[2]
RatSub(a, b)  == <<a[1] * b[2] - b[1] * a[2], a[2] * b[2]>>

\* The index a frame name spells: its digit characters read as a decimal number.
RECURSIVE DigitsValue(_)
DigitsValue(d) == IF d = <<>> THEN 0
                  ELSE 10 * DigitsValue(SubSeq(d, 1, Len(d) - 1)) + (d[Len(d)] - 48)
NameIndex(name) == DigitsValue(SubSeq(name, 1, Len(name) - 1))
NameWidth(name) == Len(name) - 1
AllDigits(name) == \A k \in 1..(Len(name) - 1) : name[k] \in 48..57

\* What a completed call r did, apart from the width of the file names.
SimCallShape(r) ==
    LET N == r.steps
    IN  /\ N >= 1
        /\ Len(r.evald) = N
        /\ RatEq(r.evald[1], <<0, 1>>)
        /\ N >= 2 => RatEq(r.evald[N], <<1, 1>>)
        /\ \A k \in 1..(N - 1) : RatLess(r.evald[k], r.evald[k + 1])
        /\ \A k \in 1..(N - 2) : RatEq(RatSub(r.evald[k + 1], r.evald[k]),
                                      RatSub(r.evald[k + 2], r.evald[k + 1]))
        /\ \A k \in 1..N : /\ RatLess(r.evald[k], <<1, 1>>) \/ RatEq(r.evald[k], <<1, 1>>)
                           /\ ~RatLess(r.evald[k], <<0, 1>>)
        /\ Len(r.handed) = N
        /\ \A k \in 1..N : r.handed[k][1] = k - 1
        /\ Cardinality(DOMAIN frames) = N
        /\ \A n \in DOMAIN frames :
              /\ AllDigits(n)
              /\ NameIndex(n) \in 0..(N - 1)
              /\ frames[n].img.step = NameIndex(n)

\* C1 as stated: a completed simulate_evolution(steps = N) evaluated the PINN at N
\* equally spaced, increasing points of [0,1] from 0 (to 1 when N >= 2), called
\* the Renderer once per point with the indices 0..N-1 in order, and left one
\* image per step under a name whose index is written with two digits.
C1_AsStated ==
    runs # <<>> =>
        /\ SimCallShape(runs[1])
        /\ \A n \in DOMAIN frames : NameWidth(n) = 2

\* C1, amended: the same, with the index zero-padded to at least two digits:
\* two digits exactly for the indices below 100, and all its digits from 100 on.
C1_SimulateEvolution ==
    /\ runs # <<>> =>
        /\ SimCallShape(runs[1])
        /\ \A n \in DOMAIN frames :
              NameWidth(n) = IF NameIndex(n) < 100 THEN 2 ELSE Len(Digits(NameIndex(n)))
    /\ pc = "sim" => /\ Len(handed) = sim.i
                     /\ \A k \in 1..Len(handed) : handed[k][1] = k - 1

C1_Witness ==
    /\ runs # <<>>
    /\ runs[1].steps > 100
    /\ Cardinality(DOMAIN frames) = runs[1].steps

\* C2: two completed calls with the same parameters, the same starting vector and
\* the same step count handed the Renderer the same (step, features) sequence,
\* whatever the generator state and the directory contents they started with.
C2_Deterministic ==
    \A a, b \in 1..Len(runs) :
        (runs[a].w = runs[b].w /\ runs[a].start = runs[b].start
            /\ runs[a].steps = runs[b].steps)
        => runs[a].handed = runs[b].handed

C2_Witness ==
    \E a, b \in 1..Len(runs) :
        /\ a < b
        /\ runs[a].w = runs[b].w /\ runs[a].start = runs[b].start
        /\ runs[a].steps = runs[b].steps
        /\ runs[a].rng0 # runs[b].rng0
        /\ runs[a].steps >= 2

\* C6: a create_gif call that finds no evolution_step_*.png file prints the
\* warning, leaves the GIF unwritten and returns; one that finds files writes
\* the GIF from them.
C6_CreateGifGuard ==
    [][ (console' # console \/ (pc = "idle" /\ pc' = "crashed")) =>
            IF DOMAIN frames = {}
            THEN /\ console' = Append(console, "No evolution images found")
                 /\ gif' = gif
                 /\ pc' = pc
            ELSE /\ console' = Append(console, "GIF saved")
                 /\ Len(gif') = Cardinality(DOMAIN frames)
                 /\ \A n \in DOMAIN frames : \E k \in 1..Len(gif') : gif'[k] = frames[n]
                 /\ pc' = pc ]_vars

C6_Witness ==
    /\ console # <<>>
    /\ console[1] = "No evolution images found"
    /\ gif = <<>>
    /\ pc = "idle"

\* C10 as stated: a create_gif call made after a completed simulation writes
\* exactly the N frames of the most recent simulation, by increasing step index.
C10_AsStated ==
    [][ (console' # console /\ runs # <<>>) =>
            LET N == runs[Len(runs)].steps
            IN  /\ Len(gif') = N
                /\ \A k \in 1..Len(gif') : /\ gif'[k].call = Len(runs)
                                          /\ gif'[k].img.step = k - 1 ]_vars

---------------------------------------------------------------------------
(* Properties of evaluate_pinn *)

EvalDone == pc \in {"returned", "crashed"}

PointFields == {"t", "MSE", "RMSE", "Accuracy", "F1"}

Column(detail, field) == [k \in 1..Len(detail) |-> detail[k][field]]

\* avg is the arithmetic mean of the values: avg * count = sum.
IsMeanOf(avg, values) ==
    /\ Len(values) > 0
    /\ avg[2] # 0
    /\ avg[1] * Len(values) = avg[2] * SumSeq(values)

\* What a returned evaluate_pinn result holds for its n time points.
EvalShape(r) ==
    LET n == Len(r.t_values)
    IN  /\ r.raised = ""
        /\ r.is_none => n = DefaultEvalPoints
        /\ Len(r.Detail) = n
        /\ \A k \in 1..n : /\ DOMAIN r.Detail[k] = PointFields
                           /\ r.Detail[k].t = r.t_values[k]
        /\ IsMeanOf(r.AvgMSE,  Column(r.Detail, "MSE"))
        /\ IsMeanOf(r.AvgRMSE, Column(r.Detail, "RMSE"))
        /\ IsMeanOf(r.AvgAcc,  Column(r.Detail, "Accuracy"))
        /\ IsMeanOf(r.AvgF1,   Column(r.Detail, "F1"))

\* C3 as stated: evaluate_pinn called with any sequence of n time points returns
\* n per-timepoint records in input order and the four averages, each the mean
\* of its column.
C3_AsStated == EvalDone => EvalShape(ev)

\* C3, amended: it does so for every sequence of n >= 1 time points (and for the
\* default, where n = 10); called with an empty sequence it raises IndexError
\* and returns nothing.
C3_EvaluatePinn ==
    EvalDone =>
        IF Len(ev.t_values) >= 1
        THEN pc = "returned" /\ EvalShape(ev)
        ELSE pc = "crashed" /\ ev.raised = "IndexError"

C3_Witness ==
    /\ pc = "returned"
    /\ ev.is_none
    /\ Len(ev.Detail) = DefaultEvalPoints
    /\ \E k \in 2..Len(ev.Detail) : ev.Detail[k].RMSE # ev.Detail[1].RMSE

\* m is a median of the odd-length sequence ts: at most half of the others lie
\* below it and at most half above.
IsMedian(m, ts) ==
    LET half == (Len(ts) - 1) \div 2
    IN  /\ Cardinality({k \in 1..Len(ts) : RatLess(ts[k], m)}) <= half
        /\ Cardinality({k \in 1..Len(ts) : RatLess(m, ts[k])}) <= half

Monotone(ts) ==
    \/ \A k \in 1..(Len(ts) - 1) : ~RatLess(ts[k + 1], ts[k])
    \/ \A k \in 1..(Len(ts) - 1) : ~RatLess(ts[k], ts[k + 1])

\* The confusion matrix belongs to the element at 0-based index floor(n/2),
\* which the per-timepoint loop evaluated too.
MidPoint(r) ==
    LET n == Len(r.t_values)
    IN  /\ r.mid_pos \in 1..n
        /\ r.mid_pos - 1 = n \div 2
        /\ r.mid_t = r.t_values[r.mid_pos]
        /\ r.Detail[r.mid_pos].t = r.mid_t
        /\ r.cm = ConfusionMatrix(X, Predict(pinnW, X, r.t_values[n \div 2 + 1]))

\* C9 as stated: for every non-empty t_values the confusion matrix is that of
\* the element at index floor(n/2), an evaluated time point, and for an odd n
\* that element is the median time point.
C9_AsStated ==
    pc = "returned" =>
        /\ MidPoint(ev)
        /\ Len(ev.t_values) % 2 = 1 => IsMedian(ev.mid_t, ev.t_values)

\* C9, amended: ... and for an odd n it is the median time point when t_values
\* is in ascending or descending order, as linspace gives it.
C9_MiddleTimePoint ==
    pc = "returned" =>
        /\ MidPoint(ev)
        /\ (Len(ev.t_values) % 2 = 1 /\ Monotone(ev.t_values))
              => IsMedian(ev.mid_t, ev.t_values)

C9_Witness ==
    /\ pc = "returned"
    /\ Len(ev.t_values) = 3
    /\ RatLess(ev.t_values[1], ev.t_values[2])
    /\ RatLess(ev.t_values[2], ev.t_values[3])
    /\ ev.mid_t = ev.t_values[2]

---------------------------------------------------------------------------
(* Properties of the Renderer *)

\* C4 as stated: for a feature vector of probabilities the number of arms is
\* 2 + 4 (P_CW + P_ACW) rounded down, lies in 2..6, is 2 when P_CW + P_ACW = 0,
\* and that many arms are drawn.
C4_AsStated ==
    pc = "returned" =>
        LET total == rd.features[2] + rd.features[3]
        IN  /\ rd.num_arms * Scale <= 2 * Scale + 4 * total
            /\ 2 * Scale + 4 * total < (rd.num_arms + 1) * Scale
            /\ rd.num_arms \in 2..6
            /\ total = 0 => rd.num_arms = 2
            /\ rd.img.arms = rd.num_arms

---------------------------------------------------------------------------
(* Properties of physics_loss *)

AllZero(slopes) == \A j \in 1..Len(slopes) : \A k \in 1..InputDim : slopes[j][k] = 0

\* weight times the mean of the squared derivative that autograd.grad returns for
\* t: per row, the sum of the row's derivatives.
MeanSquaredRowSum(slopes, weight) ==
    <<weight[1] * SumSeq([j \in 1..Len(slopes) |->
                             SumSeq(slopes[j]) * SumSeq(slopes[j])]),
      weight[2] * Len(slopes)>>

\* C8 as stated: physics_loss returns a non-negative value for all inputs, 0 when
\* preds is constant in t, and the value is weight times the mean of the squared
\* derivative of preds with respect to t.
C8_AsStated ==
    pc # "call" =>
        /\ ph.out.raised = ""
        /\ ph.out.loss[1] >= 0 /\ ph.out.loss[2] > 0
        /\ AllZero(ph.slopes) => ph.out.loss[1] = 0
        /\ RatEq(ph.out.loss, MeanSquaredRowSum(ph.slopes, Weight))

\* C8, amended: when preds was computed from t, physics_loss returns a
\* non-negative value, 0 when preds is constant in t; the value is weight times
\* the mean of the squared derivative of preds with respect to t.  When t is not
\* in the graph of preds, it raises instead of returning 0.
C8_PhysicsLoss ==
    pc # "call" =>
        IF ph.connected
        THEN /\ pc = "returned"
             /\ ph.out.raised = ""
             /\ ph.out.loss[1] >= 0 /\ ph.out.loss[2] > 0
             /\ AllZero(ph.slopes) => ph.out.loss[1] = 0
             /\ RatEq(ph.out.loss, MeanSquaredRowSum(ph.slopes, Weight))
        ELSE /\ pc = "crashed"
             /\ ph.out.raised = "RuntimeError"

C8_Witness ==
    /\ pc = "returned"
    /\ Len(ph.slopes) = MaxBatch
    /\ AllZero(ph.slopes)
    /\ ph.out.loss[1] = 0

---------------------------------------------------------------------------
(* Properties of the script *)

Stages == <<"start", "load", "vae_init", "vae_train", "pinn_init", "pinn_train",
            "eval_vae", "eval_pinn", "plot", "select", "sim", "gif", "done">>

\* The position of pc in the script's order (0 when the script has crashed).
StageNo == IF \E k \in 1..Len(Stages) : Stages[k] = pc
           THEN CHOOSE k \in 1..Len(Stages) : Stages[k] = pc
           ELSE 0

\* C5: once a model's parameters are saved, no step changes that model's
\* parameters or rewrites its parameter file.
C5_TrainedStateFrozen ==
    [][ /\ "vae_galaxy.pth" \in DOMAIN saved =>
              /\ vaeW' = vaeW
              /\ "vae_galaxy.pth" \in DOMAIN saved'
              /\ saved'["vae_galaxy.pth"] = saved["vae_galaxy.pth"]
        /\ "pinn_galaxy.pth" \in DOMAIN saved =>
              /\ pinnW' = pinnW
              /\ "pinn_galaxy.pth" \in DOMAIN saved'
              /\ saved'["pinn_galaxy.pth"] = saved["pinn_galaxy.pth"] ]_vars

C5_Witness ==
    /\ pc = "done"
    /\ saved["vae_galaxy.pth"] = vaeW
    /\ saved["pinn_galaxy.pth"] = pinnW
    /\ ev # <<>> /\ vm # <<>> /\ gif # <<>>
    /\ "pinn_metrics_over_time.png" \in plots

\* C7: the stages run in the script's order, each after the previous one has
\* finished: every effect of a stage is there exactly from the end of that
\* stage on, both loops make exactly 240 optimizer steps, and a file exists only
\* in a directory that was created.
C7_StrictSequence ==
    /\ StageNo >= 1
    /\ (dirs = {"models", "results"}) <=> StageNo >= 2
    /\ dirs = {} <=> StageNo = 1
    /\ (X # <<>>) <=> StageNo >= 3
    /\ optSteps.vae = (IF StageNo <= 3 THEN 0 ELSE IF StageNo = 4 THEN epoch ELSE Epochs)
    /\ ("vae_galaxy.pth" \in DOMAIN saved) <=> StageNo >= 5
    /\ optSteps.pinn = (IF StageNo <= 5 THEN 0 ELSE IF StageNo = 6 THEN epoch ELSE Epochs)
    /\ ("pinn_galaxy.pth" \in DOMAIN saved) <=> StageNo >= 7
    /\ epoch \in 0..Epochs
    /\ (vm # <<>>) <=> StageNo >= 8
    /\ ("vae_confusion_matrix.png" \in plots) <=> StageNo >= 8
    /\ (ev # <<>>) <=> StageNo >= 9
    /\ ("pinn_confusion_matrix.png" \in plots) <=> StageNo >= 9
    /\ ("pinn_metrics_over_time.png" \in plots) <=> StageNo >= 10
    /\ (sim # NoSim) <=> StageNo >= 11
    /\ frames # <<>> => StageNo >= 11
    /\ StageNo = 11 => Cardinality(DOMAIN frames) = sim.i /\ sim.i < DefaultSteps
    /\ (runs # <<>>) <=> StageNo >= 12
    /\ StageNo >= 12 => Len(runs) = 1 /\ Cardinality(DOMAIN frames) = DefaultSteps
    /\ (gif # <<>>) <=> StageNo >= 13
    /\ (saved # <<>>) => "models" \in dirs
    /\ (frames # <<>> \/ plots # {}) => "results" \in dirs

C7_Witness ==
    /\ pc = "done"
    /\ Len(gif) = DefaultSteps
    /\ optSteps = [vae |-> Epochs, pinn |-> Epochs]

===========================================================================
